---------------------------- MODULE Spec2Model ----------------------------
(***************************************************************************)
(* A model of the quadtree image store of qtree.cpp (class QTree).         *)
(*                                                                         *)
(* The nodes live in a heap: a sequence of node records indexed by their   *)
(* address, with 0 for the null pointer.  `new` takes the next address     *)
(* (addresses are never handed out twice, so that two pointers are equal   *)
(* exactly when they name the same allocation) and `delete` marks the cell *)
(* dead.  A QTree object is a record of its fields root, width and height. *)
(*                                                                         *)
(* unsigned int: every coordinate of the code is a 32-bit unsigned value   *)
(* and the transforms do wrap around.  A value v in 0 .. 2^32-1 is held    *)
(* as the integer of -2^31 .. 2^31-1 that is congruent to it modulo 2^32   *)
(* (its two's complement reading): 4294967295 is held as -1.  UAdd, USub,  *)
(* UMul, UDiv, UDiv2, ULt and ULe are the unsigned operations on that form. *)
(*                                                                         *)
(* Sequencing: the code runs its statements one after the other, each on   *)
(* the heap the one before left.  Only({e : x \in {d}}) is "x = d; e": it   *)
(* computes d once and names the value x in e.                             *)
(***************************************************************************)
EXTENDS Integers, Sequences, FiniteSets, TLC

VARIABLES img, heap, trees, made, hist, out, region

vars == <<img, heap, trees, made, hist, out, region>>

(***************************************************************************)
(* Bounds of the model.                                                    *)
(***************************************************************************)
MaxW == 3
MaxH == 3
MaxPixels == 6
MaxOps == 4
MaxCopyOps == 3
MaxPrunes == 2
MaxScale == 2
MaxExp == 13

Only(S) == CHOOSE v \in S : TRUE

(***************************************************************************)
(* 32-bit unsigned arithmetic.                                             *)
(***************************************************************************)
MaxInt == 2147483647
MinInt == (-MaxInt) - 1

UAdd(a, b) ==
    IF a >= 0 /\ b >= 0
    THEN IF a > MaxInt - b THEN ((a - MaxInt) - 1) + ((b - MaxInt) - 1) ELSE a + b
    ELSE IF a < 0 /\ b < 0
         THEN IF a < MinInt - b THEN ((a + MaxInt) + 1) + ((b + MaxInt) + 1) ELSE a + b
         ELSE a + b

USub(a, b) == IF b = MinInt THEN UAdd(a, MinInt) ELSE UAdd(a, -b)

UDiv2(a) == IF a >= 0 THEN a \div 2 ELSE (MaxInt + (a \div 2)) + 1

ULt(a, b) == IF (a >= 0) = (b >= 0) THEN a < b ELSE a >= 0

ULe(a, b) == a = b \/ ULt(a, b)

\* the 16-bit halves of a 32-bit value, and the value of two halves
Lo16(x) == x % 65536

Hi16(x) == (x \div 65536) % 65536

FromHalves(hi, lo) == IF hi >= 32768 THEN (hi - 65536) * 65536 + lo ELSE hi * 65536 + lo

\* the low 16 bits of x * y, for x and y below 2^16
MulLo16(x, y) == ((x % 256) * y + (((x \div 256) * y) % 256) * 256) % 65536

\* a * n modulo 2^32, by long multiplication on the halves: the low half of
\* Lo16(a) * Lo16(n), and its high half plus the low halves of the two cross
\* products (no intermediate value reaches 2^31)
UMul(a, n) ==
    LET t0 == (Lo16(a) % 256) * Lo16(n)
        t1 == (Lo16(a) \div 256) * Lo16(n)
        low == t0 + (t1 % 256) * 256
        carry == (t1 \div 256) + (low \div 65536)
    IN FromHalves((carry + MulLo16(Hi16(a), Lo16(n)) + MulLo16(Hi16(n), Lo16(a))) % 65536,
                  low % 65536)

\* the unsigned quotient a / b, for b # 0
UDiv(a, b) ==
    IF b < 0
    THEN IF ULe(b, a) THEN 1 ELSE 0
    ELSE IF a >= 0
         THEN a \div b
         ELSE Only({IF ULe(b, USub(a, UMul(q, b))) THEN UAdd(q, 1) ELSE q
                      : q \in {UAdd(k, k) : k \in {UDiv2(a) \div b}}})

(***************************************************************************)
(* Pixels and images (the cs221util collaborators RGBAPixel and PNG).      *)
(***************************************************************************)
RGB(r, g, b) == [r |-> r, g |-> g, b |-> b]

Colors == {RGB(0, 1, 7), RGB(1, 0, 7), RGB(2, 3, 7)}

DefaultPixel == RGB(255, 255, 255)

DistanceTo(p, q) ==
    (p.r - q.r) * (p.r - q.r) + (p.g - q.g) * (p.g - q.g) + (p.b - q.b) * (p.b - q.b)

MaxDistance == 3 * 255 * 255

Tolerances == {0, 4, MaxDistance}

Coords(w, h) == (0 .. w - 1) \X (0 .. h - 1)

NewPNG(w, h) == [width |-> w, height |-> h, px |-> [p \in Coords(w, h) |-> DefaultPixel]]

GetPixel(png, x, y) == png.px[<<x, y>>]

Images ==
    UNION {[width : {w}, height : {h}, px : [Coords(w, h) -> Colors]] :
             <<w, h>> \in {d \in (1 .. MaxW) \X (1 .. MaxH) : d[1] * d[2] <= MaxPixels}}

(***************************************************************************)
(* Nodes and the heap.                                                     *)
(***************************************************************************)
Null == 0

NewNode(ul, lr, a) ==
    [upLeft |-> ul, lowRight |-> lr, avg |-> a,
     NW |-> Null, NE |-> Null, SW |-> Null, SE |-> Null, live |-> TRUE]

Deleted == [NewNode(<<0, 0>>, <<0, 0>>, DefaultPixel) EXCEPT !.live = FALSE]

New(h, n) == [heap |-> Append(h, n), node |-> Len(h) + 1]

Delete(h, node) == [h EXCEPT ![node] = Deleted]

IsLeaf(h, node) ==
    /\ node # Null
    /\ h[node].NW = Null /\ h[node].NE = Null
    /\ h[node].SW = Null /\ h[node].SE = Null

(***************************************************************************)
(* Construction: QTree::QTree(const PNG&), BuildNode, CalculateAverageColor *)
(***************************************************************************)
NodePixelCount(h, node) ==
    UMul(UAdd(USub(h[node].lowRight[1], h[node].upLeft[1]), 1),
         UAdd(USub(h[node].lowRight[2], h[node].upLeft[2]), 1))

AddColor(h, acc, node) ==
    IF node # Null
    THEN Only({[sumRed |-> UAdd(acc.sumRed, UMul(h[node].avg.r, nodePixelCount)),
                sumGreen |-> UAdd(acc.sumGreen, UMul(h[node].avg.g, nodePixelCount)),
                sumBlue |-> UAdd(acc.sumBlue, UMul(h[node].avg.b, nodePixelCount)),
                pixelCount |-> UAdd(acc.pixelCount, nodePixelCount)] :
                  nodePixelCount \in {NodePixelCount(h, node)}})
    ELSE acc

CalculateAverageColor(h, NW, NE, SW, SE) ==
    Only({Only({Only({Only({
        IF s4.pixelCount # 0
        THEN RGB(UDiv(s4.sumRed, s4.pixelCount) % 256,
                 UDiv(s4.sumGreen, s4.pixelCount) % 256,
                 UDiv(s4.sumBlue, s4.pixelCount) % 256)
        ELSE IF NW # Null THEN h[NW].avg ELSE DefaultPixel
      : s4 \in {AddColor(h, s3, SE)}})
      : s3 \in {AddColor(h, s2, SW)}})
      : s2 \in {AddColor(h, s1, NE)}})
      : s1 \in {AddColor(h, [sumRed |-> 0, sumGreen |-> 0, sumBlue |-> 0,
                             pixelCount |-> 0], NW)}})

NWRect(ul, lr, midX, midY) == <<ul, <<midX, midY>>>>

NERectFullHeight(ul, lr, midX, midY) == <<<<UAdd(midX, 1), ul[2]>>, <<lr[1], lr[2]>>>>

NERect(ul, lr, midX, midY) == <<<<UAdd(midX, 1), ul[2]>>, <<lr[1], midY>>>>

SWRect(ul, lr, midX, midY) == <<<<ul[1], UAdd(midY, 1)>>, <<midX, lr[2]>>>>

SERect(ul, lr, midX, midY) == <<<<UAdd(midX, 1), UAdd(midY, 1)>>, lr>>

NoChild(h) == [heap |-> h, node |-> Null]

RECURSIVE BuildNode(_, _, _, _)
BuildNode(h, im, ul, lr) ==
    IF ul = lr
    THEN New(h, NewNode(ul, lr, GetPixel(im, ul[1], ul[2])))
    ELSE Only({Only({Only({Only({Only({Only({
           [heap |-> [n.heap EXCEPT ![n.node].NW = r1.node, ![n.node].NE = r2.node,
                                    ![n.node].SW = r3.node, ![n.node].SE = r4.node],
            node |-> n.node]
         : n \in {New(r4.heap,
                      NewNode(ul, lr, CalculateAverageColor(r4.heap, r1.node, r2.node,
                                                            r3.node, r4.node)))}})
         : r4 \in {IF ULe(UAdd(mid[1], 1), lr[1]) /\ ULe(UAdd(mid[2], 1), lr[2])
                   THEN BuildNode(r3.heap, im, SERect(ul, lr, mid[1], mid[2])[1],
                                  SERect(ul, lr, mid[1], mid[2])[2])
                   ELSE NoChild(r3.heap)}})
         : r3 \in {IF ULe(ul[1], mid[1]) /\ ULe(UAdd(mid[2], 1), lr[2])
                   THEN BuildNode(r2.heap, im, SWRect(ul, lr, mid[1], mid[2])[1],
                                  SWRect(ul, lr, mid[1], mid[2])[2])
                   ELSE NoChild(r2.heap)}})
         : r2 \in {IF ULe(UAdd(mid[1], 1), lr[1]) /\ ULe(ul[2], mid[2])
                   THEN BuildNode(r1.heap, im, NERect(ul, lr, mid[1], mid[2])[1],
                                  NERect(ul, lr, mid[1], mid[2])[2])
                   ELSE NoChild(r1.heap)}})
         : r1 \in {IF ULe(ul[1], mid[1]) /\ ULe(ul[2], mid[2])
                   THEN BuildNode(h, im, NWRect(ul, lr, mid[1], mid[2])[1],
                                  NWRect(ul, lr, mid[1], mid[2])[2])
                   ELSE NoChild(h)}})
         : mid \in {<<UDiv2(UAdd(ul[1], lr[1])), UDiv2(UAdd(ul[2], lr[2]))>>}})

\* QTree::QTree(const PNG& imIn): the heap and the object after construction.
Build(h, im) ==
    Only({[heap |-> r.heap,
           tree |-> [root |-> r.node, width |-> im.width, height |-> im.height]]
          : r \in {BuildNode(h, im, <<0, 0>>, <<USub(im.width, 1), USub(im.height, 1)>>)}})

\* One activation of BuildNode on the rectangle [ul, lr] of a region of one
\* colour whose quarters have equal sizes: each recursive call returns the node
\* of its quarter, with the rectangle it is called on and the average `quarter`
\* that BuildNode computed for a region of that size and colour.  The subtree
\* below a quarter's node is left out: CalculateAverageColor reads only the
\* rectangle and the average of the four nodes.
BuildNodeUniform(quarter, ul, lr) ==
    IF ul = lr
    THEN New(<<>>, NewNode(ul, lr, quarter))
    ELSE Only({Only({Only({Only({Only({Only({
           [heap |-> [n.heap EXCEPT ![n.node].NW = r1.node, ![n.node].NE = r2.node,
                                    ![n.node].SW = r3.node, ![n.node].SE = r4.node],
            node |-> n.node]
         : n \in {New(r4.heap,
                      NewNode(ul, lr, CalculateAverageColor(r4.heap, r1.node, r2.node,
                                                            r3.node, r4.node)))}})
         : r4 \in {IF ULe(UAdd(mid[1], 1), lr[1]) /\ ULe(UAdd(mid[2], 1), lr[2])
                   THEN New(r3.heap, NewNode(SERect(ul, lr, mid[1], mid[2])[1],
                                             SERect(ul, lr, mid[1], mid[2])[2], quarter))
                   ELSE NoChild(r3.heap)}})
         : r3 \in {IF ULe(ul[1], mid[1]) /\ ULe(UAdd(mid[2], 1), lr[2])
                   THEN New(r2.heap, NewNode(SWRect(ul, lr, mid[1], mid[2])[1],
                                             SWRect(ul, lr, mid[1], mid[2])[2], quarter))
                   ELSE NoChild(r2.heap)}})
         : r2 \in {IF ULe(UAdd(mid[1], 1), lr[1]) /\ ULe(ul[2], mid[2])
                   THEN New(r1.heap, NewNode(NERect(ul, lr, mid[1], mid[2])[1],
                                             NERect(ul, lr, mid[1], mid[2])[2], quarter))
                   ELSE NoChild(r1.heap)}})
         : r1 \in {IF ULe(ul[1], mid[1]) /\ ULe(ul[2], mid[2])
                   THEN New(<<>>, NewNode(NWRect(ul, lr, mid[1], mid[2])[1],
                                          NWRect(ul, lr, mid[1], mid[2])[2], quarter))
                   ELSE NoChild(<<>>)}})
         : mid \in {<<UDiv2(UAdd(ul[1], lr[1])), UDiv2(UAdd(ul[2], lr[2]))>>}})

(***************************************************************************)
(* Render, RenderNode                                                      *)
(***************************************************************************)
LoopEndOffByScale(c, scale) == UAdd(UMul(c, scale), 1)

\* the bound (lowRight + 1) * scale of the two loops of RenderNode
LoopEnd(c, scale) == UMul(UAdd(c, 1), scale)

\* the values the loop `for (v = lo * scale; v < (hi + 1) * scale; v++)` takes
\* that pass the bounds check v < limit
LoopRange(lo, hi, scale, limit) ==
    Only({{v \in 0 .. limit - 1 : ULe(b[1], v) /\ ULt(v, b[2])}
          : b \in {<<UMul(lo, scale), LoopEnd(hi, scale)>>}})

RECURSIVE RenderNode(_, _, _, _)
RenderNode(h, node, scale, canvas) ==
    IF node = Null THEN canvas
    ELSE IF IsLeaf(h, node)
    THEN Only({[canvas EXCEPT !.px = [p \in DOMAIN canvas.px |->
                                        IF p[1] \in xs /\ p[2] \in ys
                                        THEN h[node].avg ELSE canvas.px[p]]]
               : xs \in {LoopRange(h[node].upLeft[1], h[node].lowRight[1], scale,
                                   canvas.width)},
                 ys \in {LoopRange(h[node].upLeft[2], h[node].lowRight[2], scale,
                                   canvas.height)}})
    ELSE Only({Only({Only({
           RenderNode(h, h[node].SE, scale, c3)
         : c3 \in {RenderNode(h, h[node].SW, scale, c2)}})
         : c2 \in {RenderNode(h, h[node].NE, scale, c1)}})
         : c1 \in {RenderNode(h, h[node].NW, scale, canvas)}})

RenderPNG(h, t, scale) ==
    Only({RenderNode(h, t.root, scale, canvas)
          : canvas \in {NewPNG(UMul(t.width, scale), UMul(t.height, scale))}})

(***************************************************************************)
(* Prune, PruneNode, CanPrune, ClearSubtree                                *)
(***************************************************************************)
RECURSIVE CanPrune(_, _, _, _)
CanPrune(h, node, avgColor, tolerance) ==
    IF node = Null THEN TRUE
    ELSE IF IsLeaf(h, node) THEN DistanceTo(h[node].avg, avgColor) <= tolerance
    ELSE /\ CanPrune(h, h[node].NW, avgColor, tolerance)
         /\ CanPrune(h, h[node].NE, avgColor, tolerance)
         /\ CanPrune(h, h[node].SW, avgColor, tolerance)
         /\ CanPrune(h, h[node].SE, avgColor, tolerance)

\* The heap after ClearSubtree(node); the caller's pointer is set to null by
\* the caller of this operator (it is a reference parameter in the code).
RECURSIVE ClearSubtree(_, _)
ClearSubtree(h, node) ==
    IF node = Null THEN h
    ELSE Only({Only({Only({Only({
           Delete(c4, node)
         : c4 \in {ClearSubtree(c3, h[node].SE)}})
         : c3 \in {ClearSubtree(c2, h[node].SW)}})
         : c2 \in {ClearSubtree(c1, h[node].NE)}})
         : c1 \in {ClearSubtree(h, h[node].NW)}})

RECURSIVE PruneNode(_, _, _)
PruneNode(h, node, tolerance) ==
    IF node = Null THEN h
    ELSE IF IsLeaf(h, node) THEN h
    ELSE Only({Only({Only({Only({
           IF CanPrune(h4, node, h4[node].avg, tolerance)
           THEN Only({Only({Only({Only({
                  [c4 EXCEPT ![node].NW = Null, ![node].NE = Null,
                             ![node].SW = Null, ![node].SE = Null]
                : c4 \in {ClearSubtree(c3, h4[node].SE)}})
                : c3 \in {ClearSubtree(c2, h4[node].SW)}})
                : c2 \in {ClearSubtree(c1, h4[node].NE)}})
                : c1 \in {ClearSubtree(h4, h4[node].NW)}})
           ELSE h4
         : h4 \in {PruneNode(h3, h[node].SE, tolerance)}})
         : h3 \in {PruneNode(h2, h[node].SW, tolerance)}})
         : h2 \in {PruneNode(h1, h[node].NE, tolerance)}})
         : h1 \in {PruneNode(h, h[node].NW, tolerance)}})

(***************************************************************************)
(* FlipHorizontal, FlipNodeHorizontal, UpdateCoordinatesAfterFlip          *)
(***************************************************************************)
UpdateCoordinatesNoSwap(h, width, node) ==
    IF node = Null THEN h
    ELSE LET totalWidth == USub(width, 1)
         IN [h EXCEPT ![node].upLeft[1] = USub(totalWidth, h[node].upLeft[1]),
                      ![node].lowRight[1] = USub(totalWidth, h[node].lowRight[1])]

UpdateCoordinatesAfterFlip(h, width, node) ==
    IF node = Null THEN h
    ELSE LET totalWidth == USub(width, 1)
             newLeftX == USub(totalWidth, h[node].lowRight[1])
             newRightX == USub(totalWidth, h[node].upLeft[1])
         IN [h EXCEPT ![node].upLeft[1] = newLeftX, ![node].lowRight[1] = newRightX]

RECURSIVE FlipNodeHorizontal(_, _, _)
FlipNodeHorizontal(h, width, node) ==
    IF node = Null THEN h
    ELSE Only({Only({Only({Only({Only({Only({Only({Only({
           FlipNodeHorizontal(f3, width, s[node].SE)
         : f3 \in {FlipNodeHorizontal(f2, width, s[node].SW)}})
         : f2 \in {FlipNodeHorizontal(f1, width, s[node].NE)}})
         : f1 \in {FlipNodeHorizontal(u4, width, s[node].NW)}})
         : u4 \in {UpdateCoordinatesAfterFlip(u3, width, s[node].SE)}})
         : u3 \in {UpdateCoordinatesAfterFlip(u2, width, s[node].SW)}})
         : u2 \in {UpdateCoordinatesAfterFlip(u1, width, s[node].NE)}})
         : u1 \in {UpdateCoordinatesAfterFlip(s, width, s[node].NW)}})
         : s \in {[h EXCEPT ![node].NW = h[node].NE, ![node].NE = h[node].NW,
                            ![node].SW = h[node].SE, ![node].SE = h[node].SW]}})

(***************************************************************************)
(* RotateCCW, RotateNodeCCW                                                *)
(***************************************************************************)
RECURSIVE RotateNodeCCW(_, _, _, _)
RotateNodeCCW(h, node, ul, lr) ==
    IF node = Null THEN h
    ELSE Only({Only({Only({Only({Only({Only({
           [r4 EXCEPT ![node].upLeft = <<ul[2], USub(lr[1], USub(lr[1], ul[1]))>>,
                      ![node].lowRight = <<lr[2], USub(lr[1], ul[1])>>]
         : r4 \in {IF s[node].SE # Null
                   THEN RotateNodeCCW(r3, s[node].SE, <<UAdd(m.midY, 1), ul[1]>>,
                                      <<lr[2], m.east>>)
                   ELSE r3}})
         : r3 \in {IF s[node].SW # Null
                   THEN RotateNodeCCW(r2, s[node].SW, <<UAdd(m.midY, 1), m.east>>,
                                      <<lr[2], lr[1]>>)
                   ELSE r2}})
         : r2 \in {IF s[node].NE # Null
                   THEN RotateNodeCCW(r1, s[node].NE, <<ul[2], ul[1]>>, <<m.midY, m.east>>)
                   ELSE r1}})
         : r1 \in {IF s[node].NW # Null
                   THEN RotateNodeCCW(s, s[node].NW, <<ul[2], m.east>>, <<m.midY, lr[1]>>)
                   ELSE s}})
         : m \in {[midY |-> UDiv2(UAdd(ul[2], lr[2])),
                   east |-> USub(lr[1], UDiv2(UAdd(ul[1], lr[1])))]}})
         : s \in {[h EXCEPT ![node].NW = h[node].SW, ![node].SW = h[node].SE,
                            ![node].SE = h[node].NE, ![node].NE = h[node].NW]}})

\* The heap and the object after this->RotateCCW().
RotateTree(h, t) ==
    Only({[heap |-> RotateNodeCCW(h, t.root, <<0, 0>>,
                                  <<USub(swapped.width, 1), USub(swapped.height, 1)>>),
           tree |-> swapped]
          : swapped \in {[t EXCEPT !.width = t.height, !.height = t.width]}})

(***************************************************************************)
(* Clear, ClearNode, Copy, CopyNode                                        *)
(***************************************************************************)
\* the fields of an object after Clear(): no node, no canvas
NoTree == [root |-> Null, width |-> 0, height |-> 0]

RECURSIVE ClearNode(_, _)
ClearNode(h, node) ==
    IF node = Null THEN h
    ELSE Only({Only({Only({Only({
           Delete(c4, node)
         : c4 \in {ClearNode(c3, h[node].SE)}})
         : c3 \in {ClearNode(c2, h[node].SW)}})
         : c2 \in {ClearNode(c1, h[node].NE)}})
         : c1 \in {ClearNode(h, h[node].NW)}})

CopyNodeShallow(h, otherNode) == [heap |-> h, node |-> otherNode]

RECURSIVE CopyNode(_, _)
CopyNode(h, otherNode) ==
    IF otherNode = Null THEN [heap |-> h, node |-> Null]
    ELSE Only({Only({Only({Only({Only({
           [heap |-> [c4.heap EXCEPT ![n.node].NW = c1.node, ![n.node].NE = c2.node,
                                     ![n.node].SW = c3.node, ![n.node].SE = c4.node],
            node |-> n.node]
         : c4 \in {CopyNode(c3.heap, h[otherNode].SE)}})
         : c3 \in {CopyNode(c2.heap, h[otherNode].SW)}})
         : c2 \in {CopyNode(c1.heap, h[otherNode].NE)}})
         : c1 \in {CopyNode(n.heap, h[otherNode].NW)}})
         : n \in {New(h, NewNode(h[otherNode].upLeft, h[otherNode].lowRight,
                                 h[otherNode].avg))}})

\* The heap and the object after this->Copy(other).
CopyTree(h, other) ==
    Only({[heap |-> c.heap,
           tree |-> [root |-> c.node, width |-> other.width, height |-> other.height]]
          : c \in {CopyNode(h, other.root)}})

\* The heap and the object after this->Clear().
ClearTree(h, t) == [heap |-> ClearNode(h, t.root), tree |-> NoTree]

(***************************************************************************)
(* The state and the operations.                                           *)
(***************************************************************************)
NoPNG == [scale |-> 0, png |-> NewPNG(0, 0)]

\* region: the root BuildNode returns for an image of one colour, too large to
\* hold pixel by pixel.  NoRegion where an image is held in img.
NoRegion == [colour |-> DefaultPixel, width |-> 0, height |-> 0, heap |-> <<>>, root |-> Null]

UniformColors == Colors \cup {DefaultPixel}

MaxSide == 2 ^ MaxExp

Entry(op, obj, arg) == [op |-> op, obj |-> obj, arg |-> arg]

Init ==
    /\ img \in Images
    /\ \E b \in {Build(<<>>, img)} :
          /\ heap = b.heap
          /\ trees = [i \in {1, 2} |-> IF i = 1 THEN b.tree ELSE NoTree]
    /\ made = {1}
    /\ hist = <<>>
    /\ out = NoPNG
    /\ region = NoRegion

Render(i, scale) ==
    /\ i \in made
    /\ out' = [scale |-> scale, png |-> RenderPNG(heap, trees[i], scale)]
    /\ UNCHANGED <<img, heap, trees, made, hist, region>>

Prune(i, tolerance) ==
    /\ i \in made
    /\ heap' = PruneNode(heap, trees[i].root, tolerance)
    /\ hist' = Append(hist, Entry("Prune", i, tolerance))
    /\ UNCHANGED <<img, trees, made, out, region>>

FlipHorizontal(i) ==
    /\ i \in made
    /\ heap' = FlipNodeHorizontal(heap, trees[i].width, trees[i].root)
    /\ hist' = Append(hist, Entry("Flip", i, 0))
    /\ UNCHANGED <<img, trees, made, out, region>>

RotateCCW(i) ==
    /\ i \in made
    /\ \E r \in {RotateTree(heap, trees[i])} :
          heap' = r.heap /\ trees' = [trees EXCEPT ![i] = r.tree]
    /\ hist' = Append(hist, Entry("Rotate", i, 0))
    /\ UNCHANGED <<img, made, out, region>>

Clear(i) ==
    /\ i \in made
    /\ trees[i].root # Null
    /\ \E c \in {ClearTree(heap, trees[i])} :
          heap' = c.heap /\ trees' = [trees EXCEPT ![i] = c.tree]
    /\ hist' = Append(hist, Entry("Clear", i, 0))
    /\ UNCHANGED <<img, made, out, region>>

\* QTree copy(other): the copy constructor runs Copy(other) on the new object.
CopyConstruct(i, other) ==
    /\ i \notin made /\ other \in made
    /\ \E c \in {CopyTree(heap, trees[other])} :
          heap' = c.heap /\ trees' = [trees EXCEPT ![i] = c.tree]
    /\ made' = made \cup {i}
    /\ hist' = Append(hist, Entry("Copy", i, other))
    /\ UNCHANGED <<img, out, region>>

\* lhs = rhs
Assign(lhs, rhs) ==
    /\ lhs \in made /\ rhs \in made
    /\ IF lhs = rhs
       THEN UNCHANGED <<heap, trees>>
       ELSE \E c \in {ClearTree(heap, trees[lhs])} :
               \E d \in {CopyTree(c.heap, trees[rhs])} :
                  heap' = d.heap /\ trees' = [trees EXCEPT ![lhs] = d.tree]
    /\ hist' = IF lhs = rhs THEN hist ELSE Append(hist, Entry("Assign", lhs, rhs))
    /\ UNCHANGED <<img, made, out, region>>

\* the number of Prune calls made on object i
PruneCount(i) == Cardinality({k \in 1 .. Len(hist) : hist[k].op = "Prune" /\ hist[k].obj = i})

\* Prune has no guard in the code; the model bounds how often it is called
MorePrunes(i) == PruneCount(i) < MaxPrunes

\* BuildNode on a single pixel of colour c
InitUniform ==
    /\ img = NewPNG(0, 0)
    /\ heap = <<>>
    /\ trees = [i \in {1, 2} |-> NoTree]
    /\ made = {}
    /\ hist = <<>>
    /\ out = NoPNG
    /\ \E c \in UniformColors :
          \E b \in {BuildNodeUniform(c, <<0, 0>>, <<0, 0>>)} :
             region = [colour |-> c, width |-> 1, height |-> 1,
                       heap |-> b.heap, root |-> b.node]

\* BuildNode on the image of the same colour that is dw times as wide and dh
\* times as high.  Its quarters have the size of the region built before (a
\* strip one pixel wide or high has two halves instead), so that each recursive
\* call returns a node with the average computed for that region.
BuildUniform(dw, dh) ==
    /\ region # NoRegion
    /\ dw = 2 \/ dh = 2
    /\ dw = 1 => region.width = 1
    /\ dh = 1 => region.height = 1
    /\ region.width * dw <= MaxSide /\ region.height * dh <= MaxSide
    /\ \E b \in {BuildNodeUniform(region.heap[region.root].avg, <<0, 0>>,
                                   <<region.width * dw - 1, region.height * dh - 1>>)} :
          region' = [colour |-> region.colour,
                     width |-> region.width * dw, height |-> region.height * dh,
                     heap |-> b.heap, root |-> b.node]
    /\ UNCHANGED <<img, heap, trees, made, hist, out>>

Next ==
    \/ \E s \in 1 .. MaxScale : Render(1, s)
    \/ \E t \in Tolerances : Len(hist) < MaxOps /\ MorePrunes(1) /\ Prune(1, t)

Spec == Init /\ [][Next]_vars

\* a built tree that is pruned and flipped
NextFlip ==
    /\ Len(hist) < MaxOps
    /\ \/ \E t \in Tolerances : MorePrunes(1) /\ Prune(1, t)
       \/ FlipHorizontal(1)

SpecFlip == Init /\ [][NextFlip]_vars

\* a built tree that is pruned, flipped and rotated
NextTransform ==
    /\ Len(hist) < MaxOps
    /\ \/ \E t \in Tolerances : MorePrunes(1) /\ Prune(1, t)
       \/ FlipHorizontal(1)
       \/ RotateCCW(1)

SpecTransform == Init /\ [][NextTransform]_vars

\* a built tree (object 1), and a second object that is copied from it,
\* assigned from it and then changed
NextCopy ==
    /\ Len(hist) < MaxCopyOps
    /\ \/ CopyConstruct(2, 1)
       \/ Assign(2, 1)
       \/ Assign(1, 1)
       \/ \E t \in Tolerances : MorePrunes(2) /\ Prune(2, t)
       \/ FlipHorizontal(2)
       \/ RotateCCW(2)
       \/ Clear(2)

SpecCopy == Init /\ [][NextCopy]_vars

\* trees of images of one colour, with sides 1, 2, 4, ... MaxSide
NextUniform ==
    \/ BuildUniform(2, 2)
    \/ BuildUniform(2, 1)
    \/ BuildUniform(1, 2)

SpecUniform == InitUniform /\ [][NextUniform]_vars

(***************************************************************************)
(* Notions the properties are stated in.                                   *)
(***************************************************************************)
\* the heap and the object the constructor made of img
Source == Build(<<>>, img)

Fresh == hist = <<>>

\* Prune has run on object i since it last became a copy
Pruned(i) ==
    \E k \in 1 .. Len(hist) :
        /\ hist[k].op = "Prune" /\ hist[k].obj = i
        /\ \A j \in k + 1 .. Len(hist) : ~(hist[j].op = "Assign" /\ hist[j].obj = i)

LastOp == IF hist = <<>> THEN "Build" ELSE hist[Len(hist)].op

OpsAre(ops) == Len(hist) = Len(ops) /\ \A k \in 1 .. Len(ops) : hist[k].op = ops[k]

ChildrenOf(h, n) == {h[n].NW, h[n].NE, h[n].SW, h[n].SE} \ {Null}

RECURSIVE Subtree(_, _)
Subtree(h, n) ==
    IF n = Null THEN {}
    ELSE {n} \cup Subtree(h, h[n].NW) \cup Subtree(h, h[n].NE)
             \cup Subtree(h, h[n].SW) \cup Subtree(h, h[n].SE)

LeavesOf(h, n) == {a \in Subtree(h, n) : IsLeaf(h, a)}

\* the pixels of the rectangle of node n, corners included
Rect(h, n) ==
    (h[n].upLeft[1] .. h[n].lowRight[1]) \X (h[n].upLeft[2] .. h[n].lowRight[2])

Area(h, n) == IF n = Null THEN 0 ELSE Cardinality(Rect(h, n))

Mirror(png) ==
    [png EXCEPT !.px = [p \in DOMAIN png.px |-> png.px[<<(png.width - 1) - p[1], p[2]>>]]]

NonUniform == \E p, q \in DOMAIN img.px : img.px[p] # img.px[q]

(***************************************************************************)
(* Construction and rendering.                                             *)
(***************************************************************************)
\* C1: the freshly built tree of a W x H image has exactly W*H leaves, one per
\* pixel with upLeft = lowRight = that pixel; the rectangles of the children of
\* every internal node tile the node's rectangle without gap or overlap, and the
\* root's rectangle is the whole image.
C1_PartitionComplete ==
    Fresh =>
      LET root == trees[1].root
          all == Subtree(heap, root)
          leaves == LeavesOf(heap, root)
      IN /\ Cardinality(leaves) = img.width * img.height
         /\ \A p \in Coords(img.width, img.height) :
               \E l \in leaves : heap[l].upLeft = p /\ heap[l].lowRight = p
         /\ Rect(heap, root) = Coords(img.width, img.height)
         /\ \A n \in all \ leaves :
               /\ Rect(heap, n) = UNION {Rect(heap, c) : c \in ChildrenOf(heap, n)}
               /\ \A c, d \in ChildrenOf(heap, n) :
                     c # d => Rect(heap, c) \cap Rect(heap, d) = {}

C1_Witness ==
    /\ Fresh /\ img.width = 3 /\ img.height = 2
    /\ Cardinality(ChildrenOf(heap, trees[1].root)) = 4
    /\ Cardinality(LeavesOf(heap, trees[1].root)) = 6

\* the number of pixels of the rectangle of node n
PixelArea(h, n) ==
    IF n = Null
    THEN 0
    ELSE ((h[n].lowRight[1] - h[n].upLeft[1]) + 1) * ((h[n].lowRight[2] - h[n].upLeft[2]) + 1)

\* h[n].avg[ch] = floor(sum(child.avg[ch] * child.area) / sum(child.area)) over
\* the children of n, that is 0 <= sum((child.avg[ch] - h[n].avg[ch]) * child.area)
\* < sum(child.area).  The sum is taken in two digits of base 65536 (hi, lo),
\* which keeps every intermediate value small for areas up to 2^28.
IsWeightedMean(h, n, ch) ==
    LET kids == <<h[n].NW, h[n].NE, h[n].SW, h[n].SE>>
        d(k) == IF kids[k] = Null THEN 0 ELSE h[kids[k]].avg[ch] - h[n].avg[ch]
        alo(k) == PixelArea(h, kids[k]) % 65536
        ahi(k) == PixelArea(h, kids[k]) \div 65536
        lo == d(1) * alo(1) + d(2) * alo(2) + d(3) * alo(3) + d(4) * alo(4)
        hi == d(1) * ahi(1) + d(2) * ahi(2) + d(3) * ahi(3) + d(4) * ahi(4) + (lo \div 65536)
        nlo == alo(1) + alo(2) + alo(3) + alo(4)
        nhi == ahi(1) + ahi(2) + ahi(3) + ahi(4) + (nlo \div 65536)
    IN /\ hi >= 0
       /\ hi < nhi \/ (hi = nhi /\ lo % 65536 < nlo % 65536)

\* C2: in the freshly built tree a leaf stores the colour of its pixel, and an
\* internal node stores, per channel, the truncated mean of its children's stored
\* averages weighted by the areas of their rectangles.  Stated of the tree built
\* of img and of the root built of an image of one colour.
C2_AverageOfChildren ==
    /\ Fresh =>
          \A n \in Subtree(heap, trees[1].root) :
             IF IsLeaf(heap, n)
             THEN heap[n].avg = img.px[heap[n].upLeft]
             ELSE \A ch \in {"r", "g", "b"} : IsWeightedMean(heap, n, ch)
    /\ region # NoRegion =>
          IF IsLeaf(region.heap, region.root)
          THEN region.heap[region.root].avg = region.colour
          ELSE \A ch \in {"r", "g", "b"} : IsWeightedMean(region.heap, region.root, ch)

\* C3: Render(s) of the freshly built tree is a (W*s) x (H*s) buffer whose pixel
\* (X, Y) has the colour of source pixel (X div s, Y div s).
C3_RenderScaled ==
    (Fresh /\ out.scale # 0) =>
      LET s == out.scale
      IN /\ out.png.width = img.width * s
         /\ out.png.height = img.height * s
         /\ DOMAIN out.png.px = Coords(img.width * s, img.height * s)
         /\ \A p \in Coords(img.width * s, img.height * s) :
               out.png.px[p] = img.px[<<p[1] \div s, p[2] \div s>>]

C3_Witness ==
    /\ Fresh /\ out.scale = 2 /\ img.width = 3 /\ img.height = 2 /\ NonUniform
    /\ out.png.px[<<5, 3>>] = img.px[<<2, 1>>]

(***************************************************************************)
(* Pruning.                                                                *)
(***************************************************************************)
\* the nodes that one Prune turned from an internal node into a leaf
Collapsed ==
    LET src == Source
    IN {n \in 1 .. Len(src.heap) : ~IsLeaf(src.heap, n) /\ heap[n].live /\ IsLeaf(heap, n)}

\* every pixel of the original subtree of n is within tolerance of n's average
Eligible(n, tolerance) ==
    \A p \in LeavesOf(Source.heap, n) :
       DistanceTo(Source.heap[p].avg, Source.heap[n].avg) <= tolerance

\* C4: after Prune(tolerance) of the freshly built tree, every pixel that lay
\* beneath a collapsed node in the unpruned tree is within tolerance of that
\* node's stored average.
C4_CollapsedWithinTolerance ==
    OpsAre(<<"Prune">>) => \A n \in Collapsed : Eligible(n, hist[1].arg)

\* C5: after Prune(tolerance) of the freshly built tree, every internal node
\* whose original pixels are all within tolerance of its stored average is a
\* leaf, or was removed beneath a collapsed ancestor.
C5_EligibleCollapsed ==
    OpsAre(<<"Prune">>) =>
      \A n \in 1 .. Len(Source.heap) :
         (~IsLeaf(Source.heap, n) /\ Eligible(n, hist[1].arg))
            => (~heap[n].live \/ IsLeaf(heap, n))

(***************************************************************************)
(* Flip.                                                                   *)
(***************************************************************************)
\* C6: a FlipHorizontal of a built, at most once pruned, any number of times
\* flipped tree allocates and removes no node, keeps every node's y-coordinates
\* and average, keeps width and height, and mirrors Render(1): the pixel (x, y)
\* afterwards is the pixel (width-1-x, y) before.
C6_FlipMirrorsRender ==
    [][(Len(hist') = Len(hist) + 1 /\ hist'[Len(hist')].op = "Flip") =>
         /\ Len(heap') = Len(heap)
         /\ trees' = trees
         /\ Subtree(heap', trees'[1].root) = Subtree(heap, trees[1].root)
         /\ \A a \in 1 .. Len(heap) :
               /\ heap'[a].live = heap[a].live
               /\ heap'[a].avg = heap[a].avg
               /\ heap'[a].upLeft[2] = heap[a].upLeft[2]
               /\ heap'[a].lowRight[2] = heap[a].lowRight[2]
         /\ RenderPNG(heap', trees'[1], 1) = Mirror(RenderPNG(heap, trees[1], 1))]_vars

\* a pruned, 3 pixels wide tree with an internal node left, just flipped, whose
\* picture is not its own mirror image
C6_Witness ==
    /\ LastOp = "Flip" /\ Pruned(1) /\ img.width = 3
    /\ ~IsLeaf(heap, trees[1].root)
    /\ Collapsed # {}
    /\ RenderPNG(heap, trees[1], 1) # Mirror(RenderPNG(heap, trees[1], 1))

(***************************************************************************)
(* Rotation.                                                               *)
(***************************************************************************)
\* C7: one RotateCCW of the freshly built tree swaps width and height, and
\* Render(1) shows source pixel (x, y) at (y, W-1-x).
C7_RotateOnce ==
    OpsAre(<<"Rotate">>) =>
      LET r == RenderPNG(heap, trees[1], 1)
      IN /\ trees[1].width = img.height /\ trees[1].height = img.width
         /\ r.width = img.height /\ r.height = img.width
         /\ \A p \in Coords(img.width, img.height) :
               r.px[<<p[2], (img.width - 1) - p[1]>>] = img.px[p]

\* C8: four RotateCCW of the freshly built tree restore width, height and
\* Render(1).
C8_RotateFour ==
    OpsAre(<<"Rotate", "Rotate", "Rotate", "Rotate">>) =>
      /\ trees[1].width = img.width /\ trees[1].height = img.height
      /\ RenderPNG(heap, trees[1], 1) = RenderPNG(Source.heap, Source.tree, 1)

\* C10: every node of a built, pruned, flipped and rotated tree has
\* upLeft <= lowRight in both axes and lies inside the canvas.
C10_RectanglesValid ==
    \A n \in Subtree(heap, trees[1].root) :
       /\ ULe(heap[n].upLeft[1], heap[n].lowRight[1])
       /\ ULe(heap[n].upLeft[2], heap[n].lowRight[2])
       /\ ULt(heap[n].lowRight[1], trees[1].width)
       /\ ULt(heap[n].lowRight[2], trees[1].height)

(***************************************************************************)
(* Copies.                                                                 *)
(***************************************************************************)
\* C9: an object copied or assigned from the built tree shares no node with
\* it, and whatever is done to the copy (Prune, FlipHorizontal, RotateCCW,
\* Clear, another assignment), and a self-assignment of the source, leave the
\* source's nodes, width, height and Render output as they were built.
C9_CopyIsolated ==
    LET src == Source
    IN /\ trees[1] = src.tree
       /\ SubSeq(heap, 1, Len(src.heap)) = src.heap
       /\ RenderPNG(heap, trees[1], 1) = img
       /\ 2 \in made =>
             Subtree(heap, trees[1].root) \cap Subtree(heap, trees[2].root) = {}

\* the copy has been pruned down to a single leaf and the source has not
C9_Witness ==
    /\ 2 \in made /\ Pruned(2) /\ NonUniform
    /\ IsLeaf(heap, trees[2].root)
    /\ ~IsLeaf(heap, trees[1].root)
    /\ heap[trees[2].root].avg = heap[trees[1].root].avg

=============================================================================
